---- MODULE Spec2Model ----
(***************************************************************************)
(* Model of montana_specimens_mapper.py: the MainApplication session state *)
(* (excel_data, montana_counties, current_maps, colour ranges, taxon       *)
(* selection, year entry) and its handlers load_excel, generate_map,       *)
(* process_county_data, the dropdown callbacks and the entry edits.        *)
(*                                                                         *)
(* Representation.                                                         *)
(*  - A float is [nan, v]: v counts 1/36000 of a degree (a tenth of an     *)
(*    arc second), so that one decimal digit of degrees, minutes or        *)
(*    seconds is exact.                                                    *)
(*  - A text is a sequence of one-character tokens; "deg", "prime" and     *)
(*    "dprime" stand for the degree sign, U+2032 and U+2033.               *)
(*  - A spreadsheet cell is [k, v, s]: k = "num" (a number v), "text" (the *)
(*    text s) or "nan" (an empty cell, which pandas reads as NaN).         *)
(*  - A geometry is an axis-parallel rectangle [x0, x1, y0, y1]; the       *)
(*    "within" predicate is the interior test shapely applies.             *)
(***************************************************************************)
EXTENDS Integers, Sequences, FiniteSets, TLC

\* ------------------------------------------------------------------ bounds
MaxRows == 2
NumCounties == 2

\* --------------------------------------------------------------- constants
UnitsPerDegree == 36000
FalseEasting == 600000
InfField == -1
BadField == -2

\* ------------------------------------------------------------------- floats
FNaN == [nan |-> TRUE, v |-> 0]
F(n) == [nan |-> FALSE, v |-> n]
FNeg(a) == IF a.nan THEN FNaN ELSE F(0 - a.v)

\* -------------------------------------------------------------------- texts
Digits == {"0", "1", "2", "3", "4", "5", "6", "7", "8", "9"}
DigitVal(c) ==
  CASE c = "0" -> 0 [] c = "1" -> 1 [] c = "2" -> 2 [] c = "3" -> 3
    [] c = "4" -> 4 [] c = "5" -> 5 [] c = "6" -> 6 [] c = "7" -> 7
    [] c = "8" -> 8 [] c = "9" -> 9 [] OTHER -> 0

RECURSIVE Pow10(_)
Pow10(n) == IF n = 0 THEN 1 ELSE 10 * Pow10(n - 1)

RECURSIVE DigitsToInt(_)
DigitsToInt(s) ==
  IF s = <<>> THEN 0
  ELSE 10 * DigitsToInt(SubSeq(s, 1, Len(s) - 1)) + DigitVal(s[Len(s)])

\* Length of the longest prefix of s made of tokens of set cs.
RECURSIVE Span(_, _)
Span(s, cs) ==
  IF s = <<>> \/ s[1] \notin cs THEN 0 ELSE 1 + Span(Tail(s), cs)

Drop(s, n) == SubSeq(s, n + 1, Len(s))
Take(s, n) == SubSeq(s, 1, n)

\* str.strip() on a token sequence (whitespace is the token " ").
RECURSIVE StripLeft(_)
StripLeft(s) == IF s # <<>> /\ s[1] = " " THEN StripLeft(Tail(s)) ELSE s
RECURSIVE StripRight(_)
StripRight(s) ==
  IF s # <<>> /\ s[Len(s)] = " " THEN StripRight(Take(s, Len(s) - 1)) ELSE s
StripSeq(s) == StripRight(StripLeft(s))

\* The value, in units, of the decimal numeral ip "." fp of a quantity worth
\* `scale` units (fp may be empty).
DecimalUnits(ip, fp, scale) ==
  DigitsToInt(ip) * scale + (DigitsToInt(fp) * scale) \div Pow10(Len(fp))

\* ------------------------------------------------------------------- cells
NumCell(n) == [k |-> "num", v |-> n, s |-> <<>>]
TextCell(t) == [k |-> "text", v |-> 0, s |-> t]
NaNCell == [k |-> "nan", v |-> 0, s |-> <<>>]

\* pd.notna / pd.isna on a cell.
notna(c) == c.k # "nan"

\* ---------------------------------------------------------- dms_to_decimal
\* str.replace of U+2033 by the ASCII double quote.
ReplaceDprime(s) == [i \in 1..Len(s) |-> IF s[i] = "dprime" THEN "\"" ELSE s[i]]

\* A decimal numeral \d+(?:\.\d+)? at the head of s, or \d*(?:\.\d+)? when
\* allowEmptyInt: [ok, ip, fp, len]; "." counts only when a digit follows it.
FractionLen(r) == IF r # <<>> /\ r[1] = "." THEN Span(Tail(r), Digits) ELSE 0
NumeralParts(s, ni, nf, allowEmptyInt) ==
  [ok |-> (ni >= 1 \/ allowEmptyInt),
   ip |-> Take(s, ni),
   fp |-> IF nf >= 1 THEN SubSeq(s, ni + 2, ni + nf + 1) ELSE <<>>,
   len |-> ni + (IF nf >= 1 THEN nf + 1 ELSE 0)]
NumeralFrom(s, ni, allowEmptyInt) ==
  NumeralParts(s, ni, FractionLen(Drop(s, ni)), allowEmptyInt)
Numeral(s, allowEmptyInt) == NumeralFrom(s, Span(s, Digits), allowEmptyInt)

\* re.match of (\d+)[deg\s]+(\d+(?:\.\d+)?)['prime]?\s*(\d*(?:\.\d+)?)["dprime]?
\* at the head of t, piece by piece: [ok, deg, min, sec], min and sec numerals.
SkipMinuteMark(r) == IF r # <<>> /\ r[1] \in {"'", "prime"} THEN Tail(r) ELSE r
SkipSpaces(r) == Drop(r, Span(r, {" "}))
DmsSeconds(deg, n2, g2, r2) ==
  [ok |-> deg # <<>> /\ n2 >= 1 /\ g2.ok,
   deg |-> deg, min |-> g2,
   sec |-> Numeral(SkipSpaces(SkipMinuteMark(Drop(r2, g2.len))), TRUE)]
DmsMinutes(deg, n2, r2) == DmsSeconds(deg, n2, Numeral(r2, FALSE), r2)
DmsSeparator(deg, r1, n2) == DmsMinutes(deg, n2, Drop(r1, n2))
DmsDegrees(t, n1) ==
  DmsSeparator(Take(t, n1), Drop(t, n1), Span(Drop(t, n1), {"deg", " "}))
DmsMatch(t) == DmsDegrees(t, Span(t, Digits))

\* float(text): optional sign, digits with an optional fraction, surrounding
\* whitespace ignored; anything else raises ValueError (FNaN here).
FloatDigits(neg, u, ni, dot, nf) ==
  IF ni + (IF dot THEN nf + 1 ELSE 0) = Len(u) /\ ni + nf >= 1
  THEN F((IF neg THEN -1 ELSE 1)
         * DecimalUnits(Take(u, ni),
                        IF dot THEN SubSeq(u, ni + 2, ni + nf + 1) ELSE <<>>,
                        UnitsPerDegree))
  ELSE FNaN
FloatFraction(neg, u, ni, dot) ==
  FloatDigits(neg, u, ni, dot, IF dot THEN Span(Drop(u, ni + 1), Digits) ELSE 0)
FloatUnsigned(neg, u, ni) ==
  FloatFraction(neg, u, ni, ni < Len(u) /\ u[ni + 1] = ".")
\* Variant: the sign is read and dropped.
FloatSignedAbs(t) ==
  FloatUnsigned(FALSE,
                IF t # <<>> /\ t[1] \in {"-", "+"} THEN Tail(t) ELSE t,
                Span(IF t # <<>> /\ t[1] \in {"-", "+"} THEN Tail(t) ELSE t, Digits))
FloatSigned(t) ==
  FloatUnsigned(t # <<>> /\ t[1] = "-",
                IF t # <<>> /\ t[1] \in {"-", "+"} THEN Tail(t) ELSE t,
                Span(IF t # <<>> /\ t[1] \in {"-", "+"} THEN Tail(t) ELSE t, Digits))
FloatParse(s) == FloatSigned(StripSeq(s))

\* Variant: the seconds group is not added.
DmsValueNoSeconds(m, c) ==
  IF m.ok
  THEN F(DigitsToInt(m.deg) * UnitsPerDegree
         + DecimalUnits(m.min.ip, m.min.fp, UnitsPerDegree \div 60))
  ELSE FloatParse(c)

\* deg + min_ / 60 + sec / 3600 when the pattern matched, else float(coord).
DmsValue(m, c) ==
  IF m.ok
  THEN F(DigitsToInt(m.deg) * UnitsPerDegree
         + DecimalUnits(m.min.ip, m.min.fp, UnitsPerDegree \div 60)
         + (IF m.sec.len > 0
            THEN DecimalUnits(m.sec.ip, m.sec.fp, UnitsPerDegree \div 3600)
            ELSE 0))
  ELSE FloatParse(c)
DmsOrFloat(c) == DmsValue(DmsMatch(StripSeq(c)), c)

\* Variant: 0.0 instead of NaN for a value that does not parse.
dms_to_decimal_zero(coord) ==
  IF coord.k = "num" THEN F(coord.v)
  ELSE IF coord.k # "text" \/ DmsOrFloat(ReplaceDprime(coord.s)).nan THEN F(0)
  ELSE DmsOrFloat(ReplaceDprime(coord.s))

dms_to_decimal(coord) ==
  IF coord.k = "num" THEN F(coord.v)
  ELSE IF coord.k # "text" THEN FNaN
  ELSE DmsOrFloat(ReplaceDprime(coord.s))

\* ------------------------------------------------------ convert_coordinates
UpperTok(c) ==
  CASE c = "n" -> "N" [] c = "s" -> "S" [] c = "e" -> "E" [] c = "w" -> "W"
    [] OTHER -> c
UpperSeq(s) == [i \in 1..Len(s) |-> UpperTok(s[i])]

\* str(cell) for a non-missing cell: a text is itself, a number its numeral
\* (never a direction letter), abstracted to the token "#".
StrOf(c) == IF c.k = "text" THEN c.s ELSE <<"#">>

\* A shapely Point(long, lat); a NaN coordinate makes it lie within nothing.
Point(long, lat) ==
  [valid |-> ~long.nan /\ ~lat.nan,
   x |-> IF long.nan \/ lat.nan THEN 0 ELSE long.v,
   y |-> IF long.nan \/ lat.nan THEN 0 ELSE lat.v]

\* Variant: any single letter is kept, the default is for longer texts only.
ValidDirectionKeep(d, expected, default) ==
  IF Len(d) = 1 THEN d[1] ELSE default

\* The validated direction letter: anything but the expected letters, and a
\* missing cell, give the default.
ValidDirection(d, expected, default) ==
  IF d \in {<<e>> : e \in expected} THEN d[1] ELSE default
DirectionOf(cell, expected, default) ==
  ValidDirection(IF notna(cell) THEN UpperSeq(StripSeq(StrOf(cell))) ELSE <<default>>,
                 expected, default)

\* "Adjust for direction": the value negated when dir is the negative letter.
Adjust(value, dir, negative) == IF dir = negative THEN FNeg(value) ELSE value

convert_coordinates(row) ==
  Point(Adjust(dms_to_decimal(row.long),
               DirectionOf(row.long_dir, {"E", "W"}, "W"), "W"),
        Adjust(dms_to_decimal(row.lat),
               DirectionOf(row.lat_dir, {"N", "S"}, "N"), "S"))

\* ---------------------------------------------------------------- geometry
Rect(x0, x1, y0, y1) == [x0 |-> x0, x1 |-> x1, y0 |-> y0, y1 |-> y1]

\* The open quadrant of directions (sx, sy) at point p starts inside r.
QuadrantIn(p, sx, sy, r) ==
  /\ IF sx > 0 THEN r.x0 <= p.x /\ p.x < r.x1 ELSE r.x0 < p.x /\ p.x <= r.x1
  /\ IF sy > 0 THEN r.y0 <= p.y /\ p.y < r.y1 ELSE r.y0 < p.y /\ p.y <= r.y1

Quadrants == {<<1, 1>>, <<1, -1>>, <<-1, 1>>, <<-1, -1>>}

\* Variant: containment that also accepts a point on the border (covers).
WithinRectClosed(p, r) ==
  p.valid /\ r.x0 <= p.x /\ p.x <= r.x1 /\ r.y0 <= p.y /\ p.y <= r.y1

\* geometry.within(polygon): the point lies in the interior of the polygon.
WithinRect(p, r) ==
  p.valid /\ \A q \in Quadrants : QuadrantIn(p, q[1], q[2], r)

\* geometry.within(dissolved): the interior of the union of the rectangles.
WithinUnion(p, rs) ==
  p.valid /\ \A q \in Quadrants : \E r \in rs : QuadrantIn(p, q[1], q[2], r)

\* to_crs between EPSG:4326 and EPSG:32100, as a translation.
ProjectRect(r) == Rect(r.x0 + FalseEasting, r.x1 + FalseEasting, r.y0, r.y1)
UnprojectRect(r) == Rect(r.x0 - FalseEasting, r.x1 - FalseEasting, r.y0, r.y1)
ProjectPoint(p) ==
  IF p.valid THEN [valid |-> TRUE, x |-> p.x + FalseEasting, y |-> p.y] ELSE p

\* The county shapefile, in geographic coordinates: the Montana counties
\* (STATEFP 30) side by side, county k between k and k+1 degrees west and
\* between 1 and 2 degrees north, and one county of another state east of them.
ShapefileRows ==
  [k \in 1..(NumCounties + 1) |->
     IF k <= NumCounties
     THEN [NAME |-> k, STATEFP |-> "30",
           geometry |-> Rect(0 - (k + 1) * UnitsPerDegree, 0 - k * UnitsPerDegree,
                             UnitsPerDegree, 2 * UnitsPerDegree)]
     ELSE [NAME |-> k, STATEFP |-> "56",
           geometry |-> Rect(0 - UnitsPerDegree, 0,
                             UnitsPerDegree, 2 * UnitsPerDegree)]]

\* The element of a singleton: The({e(x) : x \in {v}}) evaluates v once and
\* names it x in e, as an assignment to a local variable does.
The(S) == CHOOSE x \in S : TRUE

\* -------------------------------------------------------------- taxon texts
LowerTok(c) ==
  CASE c = "A" -> "a" [] c = "B" -> "b" [] c = "L" -> "l" [] c = "N" -> "n"
    [] OTHER -> c
LowerSeq(s) == [i \in 1..Len(s) |-> LowerTok(s[i])]
UpperLetter(c) ==
  CASE c = "a" -> "A" [] c = "b" -> "B" [] c = "l" -> "L" [] c = "n" -> "N"
    [] OTHER -> c
\* str.title(): a letter is upper-cased at the start of a word, lower-cased
\* elsewhere.
TitleSeq(s) ==
  [i \in 1..Len(s) |->
     IF i = 1 \/ s[i - 1] = " " THEN UpperLetter(s[i]) ELSE LowerTok(s[i])]

\* astype(str) of a cell: a missing cell becomes the text "nan".
AsStr(c) == IF c.k = "nan" THEN <<"n", "a", "n">> ELSE StrOf(c)

AllFamily == <<"A", "l", "l">>
AllSpecies == <<"a", "l", "l">>
SelectFamilyText == <<"Select Family">>
SelectGenusText == <<"Select Genus">>
SelectSpeciesText == <<"Select Species">>

\* ------------------------------------------------------------------- tables
RequiredColumns ==
  {"lat", "lat_dir", "long", "long_dir", "family", "genus", "species", "year"}
TaxonColumns == {"family", "genus", "species"}

NoTable == [loaded |-> FALSE, columns |-> {}, rows |-> <<>>]
NoCounties == [loaded |-> FALSE, rows |-> <<>>]
NoMaps ==
  [present |-> FALSE, map_a |-> <<>>, map_b |-> <<>>, selected_year |-> 0,
   species_info |-> <<>>]

\* Variant: no validation of the columns.
AnyColumns(table) == TRUE

HasRequiredColumns(table) == RequiredColumns \subseteq table.columns

\* pd.to_numeric(errors='coerce') on a year cell: a number stays, an integer
\* numeral is read, any other text and a missing cell become NaN.
ToNumeric(c) ==
  IF c.k = "num" THEN c
  ELSE IF c.k = "text" /\ StripSeq(c.s) # <<>>
          /\ Span(StripSeq(c.s), Digits) = Len(StripSeq(c.s))
       THEN NumCell(DigitsToInt(StripSeq(c.s)))
       ELSE NaNCell

\* The cell-wise processing of load_excel: taxon columns to stripped
\* lower-case text, the year column to numbers.
NormalizeRow(row) ==
  [col \in DOMAIN row |->
     IF col \in TaxonColumns THEN TextCell(LowerSeq(StripSeq(AsStr(row[col]))))
     ELSE IF col = "year" THEN ToNumeric(row[col])
     ELSE row[col]]
NormalizeRows(rows) == [i \in 1..Len(rows) |-> NormalizeRow(rows[i])]

\* ---------------------------------------------------------------- dropdowns
\* series.notna() & (series.str.strip() != ""): of a non-text value str.strip
\* is NaN, which differs from "".
NonEmptyCell(c) == notna(c) /\ (c.k # "text" \/ StripSeq(c.s) # <<>>)
\* series.str.lower() == value.lower()
EqualsIgnoreCase(c, value) == c.k = "text" /\ LowerSeq(c.s) = LowerSeq(value)

\* dropna().unique(), minus the texts that are empty or read "nan".
ValidValues(rows, col) ==
  {AsStr(rows[i][col]) : i \in {j \in 1..Len(rows) : notna(rows[j][col])}}
    \ {s \in {AsStr(rows[i][col]) : i \in 1..Len(rows)} :
         StripSeq(s) = <<>> \/ LowerSeq(s) = <<"n", "a", "n">>}

\* ------------------------------------------------------------- taxon filter
FamilyTest(row, fam) ==
  IF fam = AllFamily THEN NonEmptyCell(row.family)
  ELSE EqualsIgnoreCase(row.family, fam)
GenusTest(row, gen) ==
  IF gen = AllFamily THEN NonEmptyCell(row.genus)
  ELSE EqualsIgnoreCase(row.genus, gen)
SpeciesTest(row, spec) ==
  IF spec = AllSpecies THEN NonEmptyCell(row.species)
  ELSE EqualsIgnoreCase(row.species, spec)

\* Variant: each selection taken from the whole table, so that only the last
\* one decides.
TaxonFilterLastOnly(rows, fam, gen, spec) ==
  LET BySpecies(r) == SpeciesTest(r, spec)
  IN  SelectSeq(rows, BySpecies)

\* The three successive selections of generate_map.
TaxonFilter(rows, fam, gen, spec) ==
  LET ByFamily(r) == FamilyTest(r, fam)
      ByGenus(r) == GenusTest(r, gen)
      BySpecies(r) == SpeciesTest(r, spec)
  IN  SelectSeq(SelectSeq(SelectSeq(rows, ByFamily), ByGenus), BySpecies)

\* ------------------------------------------------------------ colour ranges
ColorRange(min, max, color) == [min |-> min, max |-> max, color |-> color]

\* The five entry rows as _setup_input_fields fills them.
default_ranges ==
  << ColorRange(0, 0, "white"),
     ColorRange(1, 10, "#e7e8e9"),
     ColorRange(11, 100, "#bcbec0"),
     ColorRange(101, 1000, "#939598"),
     ColorRange(1001, InfField, "#231f20") >>

\* float(min_var.get()) and the max field, where the infinity sign alone
\* means float('inf'); [ok, inf, v], ok = FALSE when float() raises.
ParseMin(f) == [ok |-> f >= 0, inf |-> FALSE, v |-> f]
ParseMax(f) == [ok |-> f >= 0 \/ f = InfField, inf |-> f = InfField, v |-> f]

\* list.sort(key=min): a stable sort, here by insertion after the last
\* element whose key is not greater.
RECURSIVE InsertByMin(_, _)
InsertByMin(sorted, r) ==
  IF sorted = <<>> THEN <<r>>
  ELSE IF sorted[Len(sorted)].min.v <= r.min.v THEN Append(sorted, r)
  ELSE Append(InsertByMin(Take(sorted, Len(sorted) - 1), r), sorted[Len(sorted)])

RECURSIVE SortByMin(_)
SortByMin(rs) ==
  IF rs = <<>> THEN <<>>
  ELSE InsertByMin(SortByMin(Take(rs, Len(rs) - 1)), rs[Len(rs)])

\* Variant: the max compared as a number even when it stands for infinity.
InRangeNoInf(count, r) == count >= r.min.v /\ count <= r.max.v

InRange(count, r) == count >= r.min.v /\ (r.max.inf \/ count <= r.max.v)

\* Variant: the loop leaves at the first matching range.
RECURSIVE ApplyRangesFirstMatch(_, _, _)
ApplyRangesFirstMatch(color, count, ranges) ==
  IF ranges = <<>> THEN color
  ELSE IF InRange(count, ranges[1]) THEN ranges[1].color
  ELSE ApplyRangesFirstMatch(color, count, Tail(ranges))

\* The loop that writes each matching range's colour over the previous one.
RECURSIVE ApplyRanges(_, _, _)
ApplyRanges(color, count, ranges) ==
  IF ranges = <<>> THEN color
  ELSE ApplyRanges(IF InRange(count, ranges[1]) THEN ranges[1].color ELSE color,
                   count, Tail(ranges))

\* ------------------------------------------------------ process_county_data
PointsIn(points_data, geometry) ==
  {i \in 1..Len(points_data) : WithinRect(points_data[i].geometry, geometry)}

ParseRanges(ranges) ==
  [i \in 1..Len(ranges) |->
     [min |-> ParseMin(ranges[i].min), max |-> ParseMax(ranges[i].max),
      color |-> ranges[i].color]]

\* Variant: the colour is not reset per county, so a county that no range
\* matches keeps the colour of the county before it.
RECURSIVE CarriedColor(_, _, _)
CarriedColor(counted, sorted, i) ==
  IF i = 0 THEN "white"
  ELSE ApplyRanges(CarriedColor(counted, sorted, i - 1), counted[i].point_count, sorted)
AssignColorsCarried(counted, sorted) ==
  [i \in 1..Len(counted) |->
     [NAME |-> counted[i].NAME, geometry |-> counted[i].geometry,
      point_count |-> counted[i].point_count,
      color |-> CarriedColor(counted, sorted, i)]]

\* The colour column, given the parsed ranges in sorted order.
AssignColors(counted, sorted) ==
  [i \in 1..Len(counted) |->
     [NAME |-> counted[i].NAME, geometry |-> counted[i].geometry,
      point_count |-> counted[i].point_count,
      color |-> ApplyRanges("white", counted[i].point_count, sorted)]]

\* Variant: counting by grouping the points, which has no row for a county
\* without points.
CountPointsNonEmpty(points_data, counties) ==
  LET Counted(i) ==
        [NAME |-> counties.rows[i].NAME, geometry |-> counties.rows[i].geometry,
         point_count |-> Cardinality(PointsIn(points_data, counties.rows[i].geometry)),
         color |-> "white"]
      all == [i \in 1..Len(counties.rows) |-> Counted(i)]
      Hit(c) == c.point_count > 0
  IN  SelectSeq(all, Hit)

\* The copy of the county table with point_count filled in and color 'white'.
CountPoints(points_data, counties) ==
  [i \in 1..Len(counties.rows) |->
     [NAME |-> counties.rows[i].NAME,
      geometry |-> counties.rows[i].geometry,
      point_count |-> Cardinality(PointsIn(points_data, counties.rows[i].geometry)),
      color |-> "white"]]

\* Variant: no copy; the function writes into the table it was given.
SameTable(counties) == [table |-> counties, shared |-> TRUE]

\* counties.copy(): a new table with the rows of the given one. shared tells
\* whether a write to the table reaches the given one.
CopyTable(counties) == [table |-> counties, shared |-> FALSE]

\* The table the function wrote to, at the point it returns or raises: the
\* point_count and color columns are written before the ranges are parsed.
WrittenTable(valid, counted, sorted) ==
  IF valid THEN AssignColors(counted, sorted) ELSE counted

\* The result for a local table `local`, the ranges parsed.
ProcessTable(points_data, counties, local, parsed, valid) ==
  The({ [ok |-> valid,
         rows |-> IF valid THEN written ELSE <<>>,
         shared |-> local.shared,
         counties |-> IF local.shared THEN [loaded |-> TRUE, rows |-> written]
                      ELSE counties]
        : written \in {WrittenTable(valid, CountPoints(points_data, local.table),
                                     SortByMin(parsed))} })

\* [ok, rows, shared, counties]: ok = FALSE when a range field does not parse
\* (float raises); rows is the returned table; counties is the table that was
\* passed in, as the call leaves it; shared tells whether the returned table
\* is that same object.
process_county_data(points_data, counties, ranges) ==
  The({ ProcessTable(points_data, counties, CopyTable(counties), parsed,
                     \A i \in 1..Len(parsed) : parsed[i].min.ok /\ parsed[i].max.ok)
        : parsed \in {ParseRanges(ranges)} })

\* ------------------------------------------------------------- generate_map
\* int(text): optional sign and digits, surrounding whitespace ignored;
\* [ok, v], ok = FALSE when int() raises ValueError.
IntDigits(neg, u) ==
  IF u # <<>> /\ Span(u, Digits) = Len(u)
  THEN [ok |-> TRUE, v |-> (IF neg THEN -1 ELSE 1) * DigitsToInt(u)]
  ELSE [ok |-> FALSE, v |-> 0]
IntSigned(t) ==
  IntDigits(t # <<>> /\ t[1] = "-",
            IF t # <<>> /\ t[1] \in {"-", "+"} THEN Tail(t) ELSE t)
IntParse(s) == IntSigned(StripSeq(s))

\* What one handler invocation did: the notification shown (toast, with its
\* error flag), the stages it ran, how often it called destroy() on its
\* LoadingIndicator, whether an exception left the handler, and the
\* intermediate tables of generate_map.
Report(op, toast, error, trace, destroys, escaped) ==
  [op |-> op, toast |-> toast, error |-> error, trace |-> trace,
   destroys |-> destroys, escaped |-> escaped,
   filtered |-> <<>>, points |-> <<>>, clipped |-> <<>>,
   map_a_data |-> <<>>, map_b_data |-> <<>>]

\* The except clause of generate_map and load_excel: destroy() on the
\* indicator, then the error toast. `destroys` counts the calls made before;
\* a destroy() on a destroyed indicator raises TclError out of the handler.
Caught(op, toast, trace, destroys) ==
  IF destroys = 0
  THEN Report(op, toast, TRUE, trace, 1, FALSE)
  ELSE Report(op, "none", FALSE, trace, destroys + 1, TRUE)

CoordinateColumns == {"lat", "lat_dir", "long", "long_dir"}

\* filtered.apply(convert_coordinates): a failing row gives Point(0, 0).
Geometries(table_columns, rows) ==
  [i \in 1..Len(rows) |->
     [rec |-> rows[i],
      geometry |-> IF CoordinateColumns \subseteq table_columns
                   THEN convert_coordinates(rows[i])
                   ELSE Point(F(0), F(0))]]

\* dissolve().to_crs("EPSG:4326"): the union of the counties, geographic.
montana_boundary(counties) ==
  {UnprojectRect(counties.rows[i].geometry) : i \in 1..Len(counties.rows)}

\* Variant: no clipping to the state boundary.
ClipNothing(points, boundary) == points

ClipToBoundary(points, boundary) ==
  LET Inside(p) == WithinUnion(p.geometry, boundary)
  IN  SelectSeq(points, Inside)

ToCountyCrs(points) ==
  [i \in 1..Len(points) |-> [points[i] EXCEPT !.geometry = ProjectPoint(@)]]

\* Variant: ~(year > selected_year), which keeps the rows without a year.
YearNotAfter(points, selected_year) ==
  LET NotNewer(p) == ~(p.rec.year.k = "num" /\ p.rec.year.v > selected_year)
  IN  SelectSeq(points, NotNewer)

\* points[points['year'] <= selected_year]: NaN compares false.
YearAtMost(points, selected_year) ==
  LET Old(p) == p.rec.year.k = "num" /\ p.rec.year.v <= selected_year
  IN  SelectSeq(points, Old)

\* Variant: Map B built from the years after the cutoff only.
PipelineDataNewerOnly(filtered, clipped, selected_year) ==
  LET Newer(p) == p.rec.year.k = "num" /\ p.rec.year.v > selected_year
      Old(p) == p.rec.year.k = "num" /\ p.rec.year.v <= selected_year
  IN  [filtered |-> filtered, clipped |-> clipped,
       map_a_data |-> SelectSeq(clipped, Old), map_b_data |-> SelectSeq(clipped, Newer)]

\* The tables of one run: the taxon-filtered rows, the clipped points in the
\* county CRS, and the two year-based datasets.
PipelineData(filtered, clipped, selected_year) ==
  [filtered |-> filtered, clipped |-> clipped,
   map_a_data |-> YearAtMost(clipped, selected_year), map_b_data |-> clipped]

\* Variant: Map B is built from the converted points, not from the clipped ones.
ClipPointsMapBUnclipped(table, filtered, points, counties, selected_year) ==
  The({ [points |-> points] @@
        (IF "year" \in table.columns
         THEN [filtered |-> filtered, clipped |-> clipped,
               map_a_data |-> YearAtMost(clipped, selected_year),
               map_b_data |-> ToCountyCrs(points)]
         ELSE [filtered |-> filtered, clipped |-> clipped,
               map_a_data |-> <<>>, map_b_data |-> <<>>])
        : clipped \in {ToCountyCrs(ClipToBoundary(points, montana_boundary(counties)))} })

ClipPoints(table, filtered, points, counties, selected_year) ==
  The({ [points |-> points] @@
        (IF "year" \in table.columns
         THEN PipelineData(filtered, clipped, selected_year)
         ELSE [filtered |-> filtered, clipped |-> clipped,
               map_a_data |-> <<>>, map_b_data |-> <<>>])
        : clipped \in {ToCountyCrs(ClipToBoundary(points, montana_boundary(counties)))} })

\* The tables of one run together with `points`, the converted rows before
\* clipping.
ClipStage(table, filtered0, counties, selected_year) ==
  The({ ClipPoints(table, filtered0, points, counties, selected_year)
        : points \in {Geometries(table.columns, filtered0)} })

\* A report carrying the tables named in flds.
WithData(rep, d, flds) ==
  [op |-> rep.op, toast |-> rep.toast, error |-> rep.error, trace |-> rep.trace,
   destroys |-> rep.destroys, escaped |-> rep.escaped,
   filtered |-> IF "filtered" \in flds THEN d.filtered ELSE <<>>,
   points |-> IF "clipped" \in flds THEN d.points ELSE <<>>,
   clipped |-> IF "clipped" \in flds THEN d.clipped ELSE <<>>,
   map_a_data |-> IF "split" \in flds THEN d.map_a_data ELSE <<>>,
   map_b_data |-> IF "split" \in flds THEN d.map_b_data ELSE <<>>]

\* The rows a returned table holds once both calls are over: those of the
\* table passed in when it is that object.
RowsOf(result, counties) == IF result.shared THEN counties.rows ELSE result.rows

\* The stages of a run that reaches its end.
StageOrderAll ==
  <<"filter", "convert", "clip", "split", "map_a", "map_b", "store", "display">>

\* matplotlib's to_rgba on the colour texts of the model: it knows the name
\* 'white' and '#' followed by six hex digits, and raises ValueError on a
\* text such as '#e7e8e'.
ColorLike(c) == c \in {"white", "#e7e8e9", "#bcbec0", "#939598", "#231f20"}

\* display_maps raises: ax.fill(facecolor=county['color']) on a county of the
\* stored maps, float() on a range field, or Patch(facecolor=color) on the
\* colour field of a range.
DisplayFails(map_a, map_b, ranges) ==
  \/ \E m \in {map_a, map_b} : \E i \in 1..Len(m) : ~ColorLike(m[i].color)
  \/ \E i \in 1..Len(ranges) :
       \/ ~ParseMin(ranges[i].min).ok
       \/ ~ParseMax(ranges[i].max).ok
       \/ ~ColorLike(ranges[i].color)

\* The dict assigned to self.current_maps.
StoredMaps(map_a, map_b, fam, gen, spec, selected_year) ==
  [present |-> TRUE, map_a |-> RowsOf(map_a, map_b.counties),
   map_b |-> RowsOf(map_b, map_b.counties),
   selected_year |-> selected_year,
   species_info |-> <<fam, gen, spec>>]

\* Storing the two processed county tables, display_maps and the success
\* toast; an exception in display_maps leaves through the except clause with
\* the tables stored. map_b is the result of the second call, made on the
\* table the first left.
StoreMaps(d, map_a, map_b, fam, gen, spec, selected_year, maps, ranges) ==
  IF ~map_a.ok \/ ~map_b.ok
  THEN [maps |-> maps, counties |-> IF map_a.ok THEN map_b.counties ELSE map_a.counties,
        report |-> WithData(Caught("generate_map", "Error generating maps",
                                   <<"filter", "convert", "clip", "split", "map_a">>, 0),
                            d, {"filtered", "clipped", "split"})]
  ELSE IF DisplayFails(RowsOf(map_a, map_b.counties), RowsOf(map_b, map_b.counties), ranges)
  THEN [counties |-> map_b.counties,
        maps |-> StoredMaps(map_a, map_b, fam, gen, spec, selected_year),
        report |-> WithData(Caught("generate_map", "Error generating maps",
                                   <<"filter", "convert", "clip", "split", "map_a",
                                     "map_b", "store">>, 0),
                            d, {"filtered", "clipped", "split"})]
  ELSE [counties |-> map_b.counties,
        maps |-> StoredMaps(map_a, map_b, fam, gen, spec, selected_year),
        report |-> WithData(Report("generate_map", "County maps generated successfully",
                                   FALSE, StageOrderAll, 1, FALSE),
                            d, {"filtered", "clipped", "split"})]

\* Variant: no test of the filtered rows before conversion and clipping.
AfterFilterNoEmptyTest(d, table, counties, ranges, fam, gen, spec, selected_year, maps) ==
  IF Len(d.clipped) = 0
  THEN [maps |-> maps, counties |-> counties,
        report |-> WithData(Report("generate_map",
                                   "No points found within Montana's boundaries", TRUE,
                                   <<"filter", "convert", "clip">>, 1, FALSE),
                            d, {"filtered", "clipped"})]
  ELSE IF \/ "year" \notin table.columns
          \/ \E i \in 1..Len(d.clipped) : d.clipped[i].rec.year.k = "text"
  THEN \* points['year'] raises KeyError, or <= raises TypeError on a text.
       [maps |-> maps, counties |-> counties,
        report |-> WithData(Caught("generate_map", "Error generating maps",
                                   <<"filter", "convert", "clip", "split">>, 0),
                            d, {"filtered", "clipped"})]
  ELSE The({ StoreMaps(d, map_a,
                        process_county_data(d.map_b_data, map_a.counties, ranges),
                        fam, gen, spec, selected_year, maps, ranges)
              : map_a \in {process_county_data(d.map_a_data, counties, ranges)} })

\* From the length test of the filtered rows to the end of the handler.
AfterFilter(d, table, counties, ranges, fam, gen, spec, selected_year, maps) ==
  IF Len(d.filtered) = 0
  THEN [maps |-> maps, counties |-> counties,
        report |-> WithData(Report("generate_map", "No data found for selected species",
                                   TRUE, <<"filter">>, 1, FALSE),
                            d, {"filtered"})]
  ELSE IF Len(d.clipped) = 0
  THEN [maps |-> maps, counties |-> counties,
        report |-> WithData(Report("generate_map",
                                   "No points found within Montana's boundaries", TRUE,
                                   <<"filter", "convert", "clip">>, 1, FALSE),
                            d, {"filtered", "clipped"})]
  ELSE IF \/ "year" \notin table.columns
          \/ \E i \in 1..Len(d.clipped) : d.clipped[i].rec.year.k = "text"
  THEN \* points['year'] raises KeyError, or <= raises TypeError on a text.
       [maps |-> maps, counties |-> counties,
        report |-> WithData(Caught("generate_map", "Error generating maps",
                                   <<"filter", "convert", "clip", "split">>, 0),
                            d, {"filtered", "clipped"})]
  ELSE The({ StoreMaps(d, map_a,
                        process_county_data(d.map_b_data, map_a.counties, ranges),
                        fam, gen, spec, selected_year, maps, ranges)
              : map_a \in {process_county_data(d.map_a_data, counties, ranges)} })

\* The stages after the taxon selection has been read.
Pipeline(table, counties, ranges, fam, gen, spec, selected_year, maps) ==
  IF ~(TaxonColumns \subseteq table.columns)
  THEN \* filtered["family"] raises KeyError.
       [maps |-> maps, counties |-> counties,
        report |-> Caught("generate_map", "Error generating maps", <<"filter">>, 0)]
  ELSE The({ AfterFilter(d, table, counties, ranges, fam, gen, spec, selected_year, maps)
              : d \in {ClipStage(table, TaxonFilter(table.rows, fam, gen, spec),
                                 counties, selected_year)} })

\* The whole handler: [maps, counties, report], maps being the new current_maps
\* and counties self.montana_counties as the handler leaves it.
generate_map(table, counties, ranges, fam0, gen0, spec0, year_text, maps) ==
  LET op == "generate_map"
      year == IntParse(year_text)
      fam == StripSeq(fam0)
      gen == StripSeq(gen0)
      spec == StripSeq(spec0)
  IN  IF ~table.loaded
      THEN [maps |-> maps, counties |-> counties,
            report |-> Report(op, "Please load an Excel file first", TRUE, <<>>, 0, FALSE)]
      ELSE IF ~counties.loaded
      THEN [maps |-> maps, counties |-> counties,
            report |-> Report(op, "Please load an Excel file first to initialize county data",
                              TRUE, <<>>, 0, FALSE)]
      ELSE IF ~year.ok
      THEN [maps |-> maps, counties |-> counties,
            report |-> Report(op, "Please enter a valid year", TRUE, <<>>, 1, FALSE)]
      ELSE IF year.v <= 0
      THEN \* destroy(), raise; the inner except calls destroy() again, which
           \* raises into the outer except, whose destroy() raises in turn.
           [maps |-> maps, counties |-> counties, report |-> Report(op, "none", FALSE, <<>>, 3, TRUE)]
      ELSE IF ~HasRequiredColumns(table)
      THEN [maps |-> maps, counties |-> counties, report |-> Caught(op, "Error generating maps", <<>>, 1)]
      ELSE IF \/ fam = <<>> \/ fam = SelectFamilyText
              \/ gen = <<>> \/ gen = SelectGenusText
              \/ spec = <<>> \/ spec = SelectSpeciesText
      THEN [maps |-> maps, counties |-> counties,
            report |-> Report(op, "Please select Family, Genus, and Species.", TRUE,
                              <<>>, 1, FALSE)]
      ELSE Pipeline(table, counties, ranges, fam, gen, spec, year.v, maps)

\* ------------------------------------------------------------- display_maps
\* f"{int(min_val)}+" for an unbounded range, else f"{int(min_val)}-{int(max_val)}".
LegendLabel(r) ==
  IF r.max.inf THEN <<r.min.v, "+">> ELSE <<r.min.v, "-", r.max.v>>

\* Variant: an entry whose label an earlier entry shows is left out.
display_maps_unique(ranges) ==
  LET sorted == SortByMin(ParseRanges(ranges))
      First(i) == \A j \in 1..(i - 1) : LegendLabel(sorted[j]) # LegendLabel(sorted[i])
      entries == [i \in 1..Len(sorted) |->
                    [label |-> LegendLabel(sorted[i]), color |-> sorted[i].color,
                     first |-> First(i)]]
      IsFirst(e) == e.first
      kept == SelectSeq(entries, IsFirst)
  IN  [i \in 1..Len(kept) |-> [label |-> kept[i].label, color |-> kept[i].color]]

\* The legend display_maps draws: the entry fields as they are now, parsed,
\* sorted by min, one patch per range.
display_maps(ranges) ==
  LET sorted == SortByMin(ParseRanges(ranges))
  IN  [i \in 1..Len(sorted) |->
         [label |-> LegendLabel(sorted[i]), color |-> sorted[i].color]]

\* generate_map reached display_maps.
Displayed(report) ==
  report.trace # <<>> /\ report.trace[Len(report.trace)] = "display"

\* ---------------------------------------------------------------- the state
VARIABLES
  excel_data,        \* self.excel_data: NoTable or [loaded, columns, rows]
  montana_counties,  \* self.montana_counties: NoCounties or [loaded, rows]
  current_maps,      \* self.current_maps: NoMaps or the two county tables
  color_ranges,      \* the (min, max, colour) entry fields
  selected_family, selected_genus, selected_species,
  year_var, file_path_var,
  family_values, genus_values, species_values,  \* the dropdown lists
  last,              \* what the most recent load_excel or generate_map did
                     \* (NoReport once another callback or edit has run)
  read_file,         \* the table pd.read_excel returned last, as read
  legend,            \* the legend entries of the figure as last drawn
  in_flight          \* the handlers suspended in an update() of their
                     \* LoadingIndicator, innermost first

vars ==
  << excel_data, montana_counties, current_maps, color_ranges, selected_family,
     selected_genus, selected_species, year_var, file_path_var, family_values,
     genus_values, species_values, last, read_file, legend, in_flight >>

NoReport == Report("none", "none", FALSE, <<>>, 0, FALSE)

\* MainApplication.__init__ and _setup_input_fields.
Constructed(ranges) ==
  /\ excel_data = NoTable
  /\ montana_counties = NoCounties
  /\ current_maps = NoMaps
  /\ color_ranges = ranges
  /\ selected_family = <<>>
  /\ selected_genus = <<>>
  /\ selected_species = <<>>
  /\ year_var = <<"2", "0", "2", "0">>
  /\ file_path_var = <<>>
  /\ family_values = {}
  /\ genus_values = {}
  /\ species_values = {}
  /\ last = NoReport
  /\ read_file = NoTable
  /\ legend = <<>>
  /\ in_flight = <<>>

Init == Constructed(default_ranges)

\* ------------------------------------------------------------------ handlers
\* all_counties[STATEFP == '30'].to_crs("EPSG:32100")
LoadCounties ==
  LET Montana(c) == c.STATEFP = "30"
      kept == SelectSeq(ShapefileRows, Montana)
  IN  [loaded |-> TRUE,
       rows |-> [i \in 1..Len(kept) |->
                   [NAME |-> kept[i].NAME, geometry |-> ProjectRect(kept[i].geometry)]]]

TitleAll(texts) == {TitleSeq(t) : t \in texts}

\* load_excel on the chosen file; shapefile_ok tells whether gpd.read_file
\* succeeds.
load_excel(file, shapefile_ok) ==
  LET raw == [loaded |-> TRUE, columns |-> file.columns, rows |-> file.rows]
      table == [raw EXCEPT !.rows = NormalizeRows(file.rows)]
  IN  IF ~file.readable
      THEN /\ last' = Caught("load_excel", "Error loading file", <<>>, 0)
           /\ UNCHANGED << excel_data, montana_counties, current_maps, color_ranges,
                           selected_family, selected_genus, selected_species, year_var,
                           file_path_var, family_values, genus_values, species_values,
                           read_file, legend, in_flight >>
      ELSE IF ~HasRequiredColumns(raw)
      THEN /\ excel_data' = raw
           /\ read_file' = raw
           /\ last' = Caught("load_excel", "Error loading file", <<>>, 1)
           /\ UNCHANGED << montana_counties, current_maps, color_ranges,
                           selected_family, selected_genus, selected_species, year_var,
                           file_path_var, family_values, genus_values, species_values,
                           legend, in_flight >>
      ELSE /\ excel_data' = table
           /\ read_file' = raw
           /\ file_path_var' = file.path
           /\ family_values' = {AllFamily} \cup TitleAll(ValidValues(table.rows, "family"))
           /\ selected_family' = SelectFamilyText
           /\ selected_genus' = SelectGenusText
           /\ genus_values' = {}
           /\ selected_species' = SelectSpeciesText
           /\ species_values' = {}
           /\ montana_counties' = IF shapefile_ok THEN LoadCounties ELSE montana_counties
           /\ last' = IF shapefile_ok
                      THEN Report("load_excel", "Excel file loaded successfully", FALSE,
                                  <<>>, 1, FALSE)
                      ELSE Caught("load_excel", "Error loading file", <<>>, 0)
           /\ UNCHANGED << current_maps, color_ranges, year_var, legend, in_flight >>

\* The rows a dropdown callback keeps for a family (and genus) selection.
RowsOfFamily(rows, family, wildcardColumn) ==
  LET Keep(r) == IF family = AllFamily THEN NonEmptyCell(r[wildcardColumn])
                 ELSE EqualsIgnoreCase(r.family, family)
  IN  SelectSeq(rows, Keep)
RowsOfGenus(rows, genus) ==
  LET Keep(r) == GenusTest(r, genus)
  IN  SelectSeq(rows, Keep)

\* The user picks a family; <<ComboboxSelected>> runs update_genus_dropdown.
SelectFamily(f) ==
  /\ f \in family_values
  /\ selected_family' = f
  /\ IF {"family", "genus"} \subseteq excel_data.columns
     THEN /\ genus_values' =
               {AllFamily} \cup
               TitleAll(ValidValues(RowsOfFamily(excel_data.rows, StripSeq(f), "genus"),
                                    "genus"))
          /\ selected_genus' = SelectGenusText
          /\ selected_species' = SelectSpeciesText
          /\ species_values' = {}
          /\ last' = NoReport
     ELSE /\ last' = Report("update_genus_dropdown", "none", FALSE, <<>>, 0, TRUE)
          /\ UNCHANGED << genus_values, selected_genus, selected_species, species_values >>
  /\ UNCHANGED << excel_data, montana_counties, current_maps, color_ranges, year_var,
                  file_path_var, family_values, read_file, legend, in_flight >>

\* The user picks a genus; <<ComboboxSelected>> runs update_species_dropdown.
SelectGenus(g) ==
  /\ g \in genus_values
  /\ selected_genus' = g
  /\ IF StripSeq(selected_family) = SelectFamilyText
     THEN /\ species_values' = {}
          /\ selected_species' = SelectSpeciesText
          /\ last' = NoReport
     ELSE IF TaxonColumns \subseteq excel_data.columns
     THEN /\ species_values' =
               {AllSpecies} \cup
               ValidValues(RowsOfGenus(RowsOfFamily(excel_data.rows,
                                                    StripSeq(selected_family), "family"),
                                       StripSeq(g)),
                           "species")
          /\ selected_species' = SelectSpeciesText
          /\ last' = NoReport
     ELSE /\ last' = Report("update_species_dropdown", "none", FALSE, <<>>, 0, TRUE)
          /\ UNCHANGED << species_values, selected_species >>
  /\ UNCHANGED << excel_data, montana_counties, current_maps, color_ranges, year_var,
                  file_path_var, family_values, genus_values, selected_family, read_file, legend, in_flight >>

SelectSpecies(sp) ==
  /\ sp \in species_values
  /\ selected_species' = sp
  /\ last' = NoReport
  /\ UNCHANGED << excel_data, montana_counties, current_maps, color_ranges, year_var,
                  file_path_var, family_values, genus_values, species_values,
                  selected_family, selected_genus, read_file, legend, in_flight >>

\* The user types a year.
SetYear(text) ==
  /\ year_var # text
  /\ year_var' = text
  /\ last' = NoReport
  /\ UNCHANGED << excel_data, montana_counties, current_maps, color_ranges,
                  selected_family, selected_genus, selected_species, file_path_var,
                  family_values, genus_values, species_values, read_file, legend, in_flight >>

\* The user retypes the fields of colour range row i.
EditRange(i, r) ==
  /\ i \in 1..Len(color_ranges)
  /\ color_ranges[i] # r
  /\ color_ranges' = [color_ranges EXCEPT ![i] = r]
  /\ last' = NoReport
  /\ UNCHANGED << excel_data, montana_counties, current_maps, year_var,
                  selected_family, selected_genus, selected_species, file_path_var,
                  family_values, genus_values, species_values, read_file, legend, in_flight >>

\* The "Generate County Map" button.
GenerateMap ==
  LET res == generate_map(excel_data, montana_counties, color_ranges, selected_family,
                          selected_genus, selected_species, year_var, current_maps)
  IN  /\ current_maps' = res.maps
      /\ montana_counties' = res.counties
      /\ last' = res.report
      /\ legend' = IF Displayed(res.report) THEN display_maps(color_ranges) ELSE legend
      /\ UNCHANGED << excel_data, color_ranges, year_var,
                      selected_family, selected_genus, selected_species, file_path_var,
                      family_values, genus_values, species_values, read_file, in_flight >>

\* on_window_resize, bound to <Configure>: display_maps when maps are stored.
\* An exception in display_maps leaves the callback before the canvas is
\* drawn, which leaves the drawing as it was.
on_window_resize ==
  /\ IF current_maps.present
     THEN IF ~DisplayFails(current_maps.map_a, current_maps.map_b, color_ranges)
          THEN /\ legend' = display_maps(color_ranges)
               /\ last' = NoReport
          ELSE /\ legend' = legend
               /\ last' = Report("on_window_resize", "none", FALSE, <<>>, 0, TRUE)
     ELSE /\ legend' = legend
          /\ last' = NoReport
  /\ UNCHANGED << excel_data, montana_counties, current_maps, color_ranges, year_var,
                  selected_family, selected_genus, selected_species, file_path_var,
                  family_values, genus_values, species_values, read_file, in_flight >>

\* ------------------------------------------- generate_map across update()
\* LoadingIndicator.__init__ and update_message call update() on the
\* indicator's window, which runs the callbacks of all pending events of the
\* application before it returns; the indicator takes no grab, so the buttons,
\* entries and dropdowns of the main window stay active. A Frame is a
\* generate_map suspended in such a call: `at` names the call, the other
\* fields are the handler's local variables.
Frame(at, selected_year, fam, gen, spec) ==
  [op |-> "generate_map", at |-> at, selected_year |-> selected_year,
   fam |-> fam, gen |-> gen, spec |-> spec]

\* The handler returns with result res.
Returns(res) ==
  /\ current_maps' = res.maps
  /\ montana_counties' = res.counties
  /\ last' = res.report
  /\ legend' = IF Displayed(res.report) THEN display_maps(color_ranges) ELSE legend
  /\ in_flight' = Tail(in_flight)
  /\ UNCHANGED << excel_data, color_ranges, year_var, selected_family, selected_genus,
                  selected_species, file_path_var, family_values, genus_values,
                  species_values, read_file >>

\* The button is pressed with a table and the counties loaded: the handler
\* creates its indicator, whose constructor calls update().
GenerateBegin ==
  /\ in_flight = <<>>
  /\ excel_data.loaded /\ montana_counties.loaded
  /\ in_flight' = <<Frame("indicator", 0, <<>>, <<>>, <<>>)>>
  /\ last' = NoReport
  /\ UNCHANGED << excel_data, montana_counties, current_maps, color_ranges, year_var,
                  selected_family, selected_genus, selected_species, file_path_var,
                  family_values, genus_values, species_values, read_file, legend >>

\* update() has returned: the handler reads the year, tests the columns and
\* reads the selection, as things are now. It returns when one of them is
\* not in order, else calls update_message("Filtering data...").
GenerateRead ==
  /\ in_flight # <<>> /\ in_flight[1].at = "indicator"
  /\ IF generate_map(excel_data, montana_counties, color_ranges, selected_family,
                     selected_genus, selected_species, year_var, current_maps).report.trace
          = <<>>
     THEN Returns(generate_map(excel_data, montana_counties, color_ranges, selected_family,
                               selected_genus, selected_species, year_var, current_maps))
     ELSE /\ in_flight' = << Frame("filtering", IntParse(year_var).v,
                                   StripSeq(selected_family), StripSeq(selected_genus),
                                   StripSeq(selected_species)) >> \o Tail(in_flight)
          /\ UNCHANGED << excel_data, montana_counties, current_maps, color_ranges,
                          year_var, selected_family, selected_genus, selected_species,
                          file_path_var, family_values, genus_values, species_values,
                          last, read_file, legend >>

\* update() has returned: the handler filters self.excel_data as it is now
\* and runs the remaining stages.
GenerateFinish ==
  /\ in_flight # <<>> /\ in_flight[1].at = "filtering"
  /\ Returns(Pipeline(excel_data, montana_counties, color_ranges, in_flight[1].fam,
                      in_flight[1].gen, in_flight[1].spec, in_flight[1].selected_year,
                      current_maps))

\* --------------------------------------------------------------- input sets
Row(loc, taxon, year) ==
  [lat |-> loc.lat, lat_dir |-> loc.lat_dir, long |-> loc.long,
   long_dir |-> loc.long_dir, family |-> taxon[1], genus |-> taxon[2],
   species |-> taxon[3], year |-> year]

Half == UnitsPerDegree \div 2

\* 1d30' N, 1.5 W: inside county 1.
InCounty1 ==
  [lat |-> TextCell(<<"1", "deg", "3", "0", "'">>), lat_dir |-> TextCell(<<"N">>),
   long |-> NumCell(UnitsPerDegree + Half), long_dir |-> TextCell(<<"W">>)]
\* 1.5 n, "2" W: on the border shared by counties 1 and 2.
OnBorder ==
  [lat |-> NumCell(UnitsPerDegree + Half), lat_dir |-> TextCell(<<"n">>),
   long |-> TextCell(<<"2">>), long_dir |-> TextCell(<<"W">>)]
\* 1.5 N, "2.5" with no direction (west by default): inside county 2.
InCounty2 ==
  [lat |-> NumCell(UnitsPerDegree + Half), lat_dir |-> TextCell(<<"N">>),
   long |-> TextCell(<<"2", ".", "5">>), long_dir |-> NaNCell]
\* 1.5 N, 0.5 W: in the neighbouring state's county, outside Montana.
OutOfState ==
  [lat |-> NumCell(UnitsPerDegree + Half), lat_dir |-> TextCell(<<"N">>),
   long |-> NumCell(Half), long_dir |-> TextCell(<<" ", "w">>)]
Locations == {InCounty1, OnBorder, InCounty2, OutOfState}

YearCells == {NumCell(2019), TextCell(<<"2", "0", "2", "1">>), TextCell(<<"a">>)}
YearTexts == {<<"2", "0", "2", "0">>, <<"2", "0", "1", "8">>, <<"0">>, <<"a">>}

GoodTaxon == <<TextCell(<<"A", "b">>), TextCell(<<"B", "a">>), TextCell(<<"b", "a">>)>>
BlankSpecies == <<TextCell(<<"A", "b">>), TextCell(<<"B", "a">>), TextCell(<<" ">>)>>

SeqsUpTo(S, n) == UNION {[1..k -> S] : k \in 0..n}

File(path, rows) ==
  [path |-> path, readable |-> TRUE, columns |-> RequiredColumns, rows |-> rows]

\* Files whose rows differ in place and year.
PipelineRows ==
  {Row(loc, GoodTaxon, y) : loc \in Locations, y \in YearCells}
    \cup {Row(InCounty1, BlankSpecies, NumCell(2019))}
PipelineFiles == {File(<<"p">>, rows) : rows \in SeqsUpTo(PipelineRows, MaxRows)}

\* ------------------------------------------------------------ specifications
\* One generate_map on a freshly loaded file: every file of PipelineFiles,
\* every selection the dropdowns offer, every year text.
Generated == last.op = "generate_map"

PLoad == ~excel_data.loaded /\ \E f \in PipelineFiles : load_excel(f, TRUE)
PSelectFamily == ~Generated /\ \E f \in family_values : SelectFamily(f)
PSelectGenus == ~Generated /\ \E g \in genus_values : SelectGenus(g)
PSelectSpecies == ~Generated /\ \E sp \in species_values : SelectSpecies(sp)
PSetYear == ~Generated /\ excel_data.loaded /\ \E t \in YearTexts : SetYear(t)
PGenerate == ~Generated /\ excel_data.loaded /\ GenerateMap

NextPipeline ==
  \/ PLoad
  \/ PSelectFamily
  \/ PSelectGenus
  \/ PSelectSpecies
  \/ PSetYear
  \/ PGenerate

SpecPipeline == Init /\ [][NextPipeline]_vars

\* Colour classification: the user retypes min and max of the range rows,
\* then loads a file with one to MaxRows points in county 1 and generates the
\* maps of every taxon.
RangeMins == {0, 1}
RangeMaxes == {0, 1, InfField}
ClassifyFiles ==
  {File(<<"c">>, [i \in 1..n |-> Row(InCounty1, GoodTaxon, NumCell(2019))])
     : n \in 1..MaxRows}

CEditRange ==
  /\ ~excel_data.loaded
  /\ \E i \in 1..Len(color_ranges), min \in RangeMins, max \in RangeMaxes :
       EditRange(i, ColorRange(min, max, color_ranges[i].color))
CLoad == ~excel_data.loaded /\ \E f \in ClassifyFiles : load_excel(f, TRUE)
CSelectFamily == ~Generated /\ AllFamily \in family_values /\ SelectFamily(AllFamily)
CSelectGenus == ~Generated /\ AllFamily \in genus_values /\ SelectGenus(AllFamily)
CSelectSpecies == ~Generated /\ AllSpecies \in species_values /\ SelectSpecies(AllSpecies)
CGenerate ==
  ~Generated /\ excel_data.loaded /\ selected_species = AllSpecies /\ GenerateMap

NextClassify ==
  \/ CEditRange
  \/ CLoad
  \/ CSelectFamily
  \/ CSelectGenus
  \/ CSelectSpecies
  \/ CGenerate

SpecClassify == Init /\ [][NextClassify]_vars

\* Taxon filter: files whose rows differ in the taxon cells (missing, blank,
\* differing in case and surrounding blanks), every selection the dropdowns
\* offer, one generate_map.
FilterFamilies == {NaNCell, TextCell(<<" ">>), TextCell(<<"A", "b">>)}
FilterGenera == {NaNCell, TextCell(<<"B", "a">>)}
FilterSpecies == {TextCell(<<" ">>), TextCell(<<"b", "a">>), TextCell(<<"B", "b", " ">>)}
FilterRows ==
  {Row(InCounty1, <<f, g, sp>>, NumCell(2019))
     : f \in FilterFamilies, g \in FilterGenera, sp \in FilterSpecies}
FilterFiles == {File(<<"f">>, rows) : rows \in SeqsUpTo(FilterRows, MaxRows)}

FLoad == ~excel_data.loaded /\ \E f \in FilterFiles : load_excel(f, TRUE)
FSelectFamily == ~Generated /\ \E f \in family_values : SelectFamily(f)
FSelectGenus == ~Generated /\ \E g \in genus_values : SelectGenus(g)
FSelectSpecies == ~Generated /\ \E sp \in species_values : SelectSpecies(sp)
FGenerate == ~Generated /\ excel_data.loaded /\ GenerateMap

NextFilter ==
  \/ FLoad
  \/ FSelectFamily
  \/ FSelectGenus
  \/ FSelectSpecies
  \/ FGenerate

SpecFilter == Init /\ [][NextFilter]_vars

\* The ranges as constructed, on files with about as many points in county 1
\* as the min of the last range, and with the fourth range made unbounded.
LastMin == default_ranges[Len(default_ranges)].min
ManyCounts == {LastMin - 1, LastMin, LastMin + MaxRows, 2 * LastMin}
ManyFiles ==
  {File(<<"m">>, [i \in 1..n |-> Row(InCounty1, GoodTaxon, NumCell(2019))])
     : n \in ManyCounts}

DEditRange ==
  /\ ~excel_data.loaded
  /\ EditRange(4, ColorRange(default_ranges[4].min, InfField, default_ranges[4].color))
DLoad == ~excel_data.loaded /\ \E f \in ManyFiles : load_excel(f, TRUE)
DSelectFamily == ~Generated /\ \E f \in family_values : SelectFamily(f)
DSelectGenus == ~Generated /\ \E g \in genus_values : SelectGenus(g)
DSelectSpecies == ~Generated /\ \E sp \in species_values : SelectSpecies(sp)
DSetYear == ~Generated /\ excel_data.loaded /\ \E t \in YearTexts : SetYear(t)
DGenerate == ~Generated /\ excel_data.loaded /\ GenerateMap

NextDefaults ==
  \/ DEditRange
  \/ DLoad
  \/ DSelectFamily
  \/ DSelectGenus
  \/ DSelectSpecies
  \/ DSetYear
  \/ DGenerate

SpecDefaults == Init /\ [][NextDefaults]_vars

\* Coordinates: files of two rows, a specimen inside county 1 and a row whose
\* latitude or longitude cell and direction cell run over a catalogue of
\* notations. Each catalogue entry states what the cell denotes: a decimal
\* text or a number its value v in units, a DMS text its degrees, tenths of
\* minutes and tenths of seconds, kind "bad" a cell that denotes no number.
Notation(cell, kind, v, deg, min10, sec10) ==
  [cell |-> cell, kind |-> kind, v |-> v, deg |-> deg, min10 |-> min10, sec10 |-> sec10]
CoordinateCatalogue ==
  { Notation(TextCell(<<"1", ".", "5">>), "decimal", UnitsPerDegree + Half, 0, 0, 0),
    Notation(TextCell(<<"-", "1", ".", "5">>), "decimal", 0 - (UnitsPerDegree + Half), 0, 0, 0),
    Notation(TextCell(<<" ", "2">>), "decimal", 2 * UnitsPerDegree, 0, 0, 0),
    Notation(TextCell(<<".", "5">>), "decimal", Half, 0, 0, 0),
    Notation(NumCell(UnitsPerDegree + Half), "number", UnitsPerDegree + Half, 0, 0, 0),
    Notation(NumCell(0 - (UnitsPerDegree + Half)), "number", 0 - (UnitsPerDegree + Half), 0, 0, 0),
    Notation(TextCell(<<"1", "deg", "3", "0", "'">>), "dms", 0, 1, 300, 0),
    Notation(TextCell(<<"1", " ", "3", "0">>), "dms", 0, 1, 300, 0),
    Notation(TextCell(<<"1", "deg", " ", "3", "0", ".", "5", "prime">>), "dms", 0, 1, 305, 0),
    Notation(TextCell(<<"1", "deg", "1", "2", "'", "3", "6", "\"">>), "dms", 0, 1, 120, 360),
    Notation(TextCell(<<"1", "deg", "1", "2", "prime", " ", "3", "6", ".", "5", "dprime">>),
             "dms", 0, 1, 120, 365),
    Notation(TextCell(<<"a">>), "bad", 0, 0, 0, 0),
    Notation(TextCell(<<"1", "deg">>), "bad", 0, 0, 0, 0),
    Notation(TextCell(<<"1", ".", "5", "deg">>), "bad", 0, 0, 0, 0),
    Notation(TextCell(<<"-", "1", "deg", "3", "0", "'">>), "bad", 0, 0, 0, 0),
    Notation(NaNCell, "bad", 0, 0, 0, 0) }
\* Direction cells with the letter they stand for after trimming and
\* upper-casing ("none" when that is no hemisphere letter at all).
DirectionCatalogue ==
  { [cell |-> TextCell(<<"N">>), letter |-> "N"],
    [cell |-> TextCell(<<"S">>), letter |-> "S"],
    [cell |-> TextCell(<<"s", " ">>), letter |-> "S"],
    [cell |-> TextCell(<<"E">>), letter |-> "E"],
    [cell |-> TextCell(<<"W">>), letter |-> "W"],
    [cell |-> TextCell(<<" ", "w">>), letter |-> "W"],
    [cell |-> TextCell(<<"x">>), letter |-> "none"],
    [cell |-> TextCell(<<"N", "S">>), letter |-> "none"],
    [cell |-> NumCell(1), letter |-> "none"],
    [cell |-> NaNCell, letter |-> "none"] }
CoordinateRows ==
  {Row([lat |-> c.cell, lat_dir |-> d.cell, long |-> InCounty1.long,
        long_dir |-> InCounty1.long_dir], GoodTaxon, NumCell(2019))
     : c \in CoordinateCatalogue, d \in DirectionCatalogue}
  \cup
  {Row([lat |-> InCounty1.lat, lat_dir |-> InCounty1.lat_dir, long |-> c.cell,
        long_dir |-> d.cell], GoodTaxon, NumCell(2019))
     : c \in CoordinateCatalogue, d \in DirectionCatalogue}
CoordinateFiles ==
  {File(<<"k">>, <<Row(InCounty1, GoodTaxon, NumCell(2019)), r>>) : r \in CoordinateRows}

KLoad == ~excel_data.loaded /\ \E f \in CoordinateFiles : load_excel(f, TRUE)
KSelectFamily == ~Generated /\ AllFamily \in family_values /\ SelectFamily(AllFamily)
KSelectGenus == ~Generated /\ AllFamily \in genus_values /\ SelectGenus(AllFamily)
KSelectSpecies == ~Generated /\ AllSpecies \in species_values /\ SelectSpecies(AllSpecies)
KGenerate ==
  ~Generated /\ excel_data.loaded /\ selected_species = AllSpecies /\ GenerateMap

NextCoordinates ==
  \/ KLoad
  \/ KSelectFamily
  \/ KSelectGenus
  \/ KSelectSpecies
  \/ KGenerate

SpecCoordinates == Init /\ [][NextCoordinates]_vars

\* The session: any sequence of loads, selections, edits and generate_map
\* calls over a small catalogue of files.
GoodFile ==
  File(<<"a">>, << Row(InCounty1, GoodTaxon, NumCell(2019)),
                   Row(InCounty2, GoodTaxon, TextCell(<<"2", "0", "2", "1">>)) >>)
AwayFile == File(<<"b">>, << Row(OutOfState, GoodTaxon, NumCell(2019)) >>)
\* A readable file without the year column.
NoYearFile ==
  [path |-> <<"c">>, readable |-> TRUE, columns |-> RequiredColumns \ {"year"},
   rows |-> << [lat |-> InCounty1.lat, lat_dir |-> InCounty1.lat_dir,
                long |-> InCounty1.long, long_dir |-> InCounty1.long_dir,
                family |-> GoodTaxon[1], genus |-> GoodTaxon[2],
                species |-> GoodTaxon[3]] >>]
\* A file pd.read_excel cannot read.
UnreadableFile == [path |-> <<"d">>, readable |-> FALSE, columns |-> {}, rows |-> <<>>]
SessionFiles == {GoodFile, AwayFile, NoYearFile, UnreadableFile}
SessionRanges ==
  {default_ranges[2], ColorRange(0, 10, "#e7e8e9"), ColorRange(1, BadField, "#e7e8e9")}

LoadExcel == \E f \in SessionFiles, shapefile_ok \in BOOLEAN : load_excel(f, shapefile_ok)
ChooseFamily == \E f \in family_values : SelectFamily(f)
ChooseGenus == \E g \in genus_values : SelectGenus(g)
ChooseSpecies == \E sp \in species_values : SelectSpecies(sp)
TypeYear == \E t \in YearTexts : SetYear(t)
TypeRange == \E r \in SessionRanges : EditRange(2, r)

Next ==
  \/ LoadExcel
  \/ ChooseFamily
  \/ ChooseGenus
  \/ ChooseSpecies
  \/ TypeYear
  \/ TypeRange
  \/ GenerateMap

Spec == Init /\ [][Next]_vars

\* A session in which events are pending while generate_map is in one of its
\* first two update() calls: their callbacks run there, each to its end.
ReentrantFiles == {GoodFile, NoYearFile}
ReentrantYears == {<<"2", "0", "2", "0">>, <<"2", "0", "1", "8">>}

RLoad == \E f \in ReentrantFiles : load_excel(f, TRUE)
RChooseFamily == \E f \in family_values : SelectFamily(f)
RChooseGenus == \E g \in genus_values : SelectGenus(g)
RChooseSpecies == \E sp \in species_values : SelectSpecies(sp)
RTypeYear == \E t \in ReentrantYears : SetYear(t)
RResize == on_window_resize
\* A second press of the button, run by the first one's update().
RGenerateInside == in_flight # <<>> /\ GenerateMap

NextReentrant ==
  \/ RLoad
  \/ RChooseFamily
  \/ RChooseGenus
  \/ RChooseSpecies
  \/ RTypeYear
  \/ RResize
  \/ GenerateBegin
  \/ GenerateRead
  \/ GenerateFinish
  \/ RGenerateInside

SpecReentrant == Init /\ [][NextReentrant]_vars

\* A session on one file in which the fields of colour range 2 are retyped
\* and the window is resized before and after the maps are generated.
RedrawRanges ==
  {default_ranges[2], ColorRange(2, 10, "#e7e8e9"), ColorRange(1, 10, "#e7e8e")}

WLoad == ~excel_data.loaded /\ load_excel(GoodFile, TRUE)
WSelectFamily == AllFamily \in family_values /\ SelectFamily(AllFamily)
WSelectGenus == AllFamily \in genus_values /\ SelectGenus(AllFamily)
WSelectSpecies == AllSpecies \in species_values /\ SelectSpecies(AllSpecies)
WTypeYear == \E t \in ReentrantYears : SetYear(t)
WTypeRange == \E r \in RedrawRanges : EditRange(2, r)
WGenerate == GenerateMap
WResize == on_window_resize

NextRedraw ==
  \/ WLoad
  \/ WSelectFamily
  \/ WSelectGenus
  \/ WSelectSpecies
  \/ WTypeYear
  \/ WTypeRange
  \/ WGenerate
  \/ WResize

SpecRedraw == Init /\ [][NextRedraw]_vars

\* ------------------------------------------------ properties of one pipeline
RECURSIVE SumSeq(_)
SumSeq(s) == IF s = <<>> THEN 0 ELSE Head(s) + SumSeq(Tail(s))
Counts(map) == [i \in 1..Len(map) |-> map[i].point_count]
Occurrences(s, x) == Cardinality({i \in 1..Len(s) : s[i] = x})

\* The last callback was a generate_map that stored and displayed the maps.
Succeeded == Generated /\ last.toast = "County maps generated successfully"
NoMatch == Generated /\ last.toast = "No data found for selected species"
NonePlaced == Generated /\ last.toast = "No points found within Montana's boundaries"

\* C2: in the maps of one run, every county's point count on Map B (all
\* years) is at least its point count on Map A (years up to the cutoff).
C2_MapBAtLeastMapA ==
  Succeeded =>
    /\ Len(current_maps.map_a) = Len(current_maps.map_b)
    /\ \A i \in 1..Len(current_maps.map_a) :
         /\ current_maps.map_a[i].NAME = current_maps.map_b[i].NAME
         /\ current_maps.map_a[i].point_count <= current_maps.map_b[i].point_count

\* A county with a point up to the cutoff and a later one.
C2_Witness ==
  /\ Succeeded
  /\ \E i \in 1..Len(current_maps.map_a) :
       /\ current_maps.map_a[i].point_count >= 1
       /\ current_maps.map_a[i].point_count < current_maps.map_b[i].point_count

\* C3: generate_map has two distinct empty outcomes, each with its own
\* notification, neither storing maps nor raising: no row matches the taxon
\* selection (decided right after the filter, before conversion and clipping),
\* and rows match but no point lies within the state boundary.
C3_TwoEmptyOutcomes ==
  /\ NoMatch =>
       /\ last.filtered = <<>>
       /\ last.trace = <<"filter">>
       /\ ~current_maps.present /\ ~last.escaped /\ last.destroys = 1
  /\ NonePlaced =>
       /\ last.filtered # <<>> /\ last.clipped = <<>>
       /\ last.trace = <<"filter", "convert", "clip">>
       /\ ~current_maps.present /\ ~last.escaped /\ last.destroys = 1
  /\ (Generated /\ last.trace # <<>> /\ last.filtered = <<>>) => NoMatch
  /\ (Generated /\ last.filtered # <<>> /\ last.clipped = <<>>) => NonePlaced

\* Rows matched the selection and none of their points is within the boundary.
C3_Witness ==
  NonePlaced /\ Len(last.filtered) = MaxRows /\ ~current_maps.present

\* C7: Map A is built from exactly the clipped points whose year is a number
\* not above the cutoff, Map B from all clipped points; a year that is missing
\* or is no number in the file is missing after loading, so its point is in
\* Map B's data only.
C7_YearSplit ==
  /\ excel_data.loaded /\ RequiredColumns \subseteq excel_data.columns =>
       \A j \in 1..Len(excel_data.rows) :
         \/ read_file.rows[j].year.k = "nan"
         \/ /\ read_file.rows[j].year.k = "text"
            /\ \E n \in 1..Len(read_file.rows[j].year.s) :
                 read_file.rows[j].year.s[n] \notin Digits
         => excel_data.rows[j].year = NaNCell
  /\ Succeeded =>
       /\ last.map_b_data = last.clipped
       /\ \A i \in 1..Len(last.map_a_data) :
            Occurrences(last.clipped, last.map_a_data[i]) >= 1
       /\ \A i \in 1..Len(last.clipped) :
            Occurrences(last.map_a_data, last.clipped[i]) =
              IF /\ last.clipped[i].rec.year.k = "num"
                 /\ last.clipped[i].rec.year.v <= current_maps.selected_year
              THEN Occurrences(last.clipped, last.clipped[i])
              ELSE 0

\* One clipped point up to the cutoff and one whose year was no number.
C7_Witness ==
  /\ Succeeded
  /\ Len(last.map_a_data) = 1
  /\ \E i \in 1..Len(last.clipped) : last.clipped[i].rec.year = NaNCell
  /\ \E j \in 1..Len(read_file.rows) : read_file.rows[j].year.k = "text"

\* No two county polygons share interior points.
NonOverlapping(rows) ==
  \A i, j \in 1..Len(rows) :
    i # j => \/ rows[i].geometry.x1 <= rows[j].geometry.x0
             \/ rows[j].geometry.x1 <= rows[i].geometry.x0
             \/ rows[i].geometry.y1 <= rows[j].geometry.y0
             \/ rows[j].geometry.y1 <= rows[i].geometry.y0

\* C8: with counties that do not overlap, the point counts of the counties
\* sum to at most the number of points handed to process_county_data.
C8_CountsAtMostPoints ==
  (Succeeded /\ NonOverlapping(montana_counties.rows)) =>
    /\ SumSeq(Counts(current_maps.map_a)) <= Len(last.map_a_data)
    /\ SumSeq(Counts(current_maps.map_b)) <= Len(last.map_b_data)

\* Two points given, one of them counted.
C8_Witness ==
  /\ Succeeded /\ NonOverlapping(montana_counties.rows)
  /\ Len(last.map_b_data) = 2
  /\ SumSeq(Counts(current_maps.map_b)) = 1

\* Position of a projected point relative to a county rectangle.
InsideCounty(p, r) == p.valid /\ r.x0 < p.x /\ p.x < r.x1 /\ r.y0 < p.y /\ p.y < r.y1
OnCountyBorder(p, r) ==
  /\ p.valid /\ r.x0 <= p.x /\ p.x <= r.x1 /\ r.y0 <= p.y /\ p.y <= r.y1
  /\ ~InsideCounty(p, r)
BorderPoints ==
  {i \in 1..Len(last.clipped) :
     \E k \in 1..Len(montana_counties.rows) :
       OnCountyBorder(last.clipped[i].geometry, montana_counties.rows[k].geometry)}

RangeColors == {color_ranges[i].color : i \in 1..Len(color_ranges)}

\* C10: each processed map has one entry per county, in the county table's
\* order, with a count that is a natural number and a colour that is white or
\* a configured one, also when no point is given.
C10_EntryPerCounty ==
  Succeeded =>
    \A m \in {current_maps.map_a, current_maps.map_b} :
      /\ Len(m) = Len(montana_counties.rows)
      /\ \A i \in 1..Len(m) :
           /\ m[i].NAME = montana_counties.rows[i].NAME
           /\ m[i].geometry = montana_counties.rows[i].geometry
           /\ m[i].point_count \in Nat
           /\ m[i].color \in RangeColors \cup {"white"}

\* Map A processed from an empty point set.
C10_Witness ==
  /\ Succeeded
  /\ last.map_a_data = <<>>
  /\ Len(current_maps.map_a) = NumCounties
  /\ \A i \in 1..Len(current_maps.map_a) : current_maps.map_a[i].point_count = 0
  /\ \E i \in 1..Len(current_maps.map_b) : current_maps.map_b[i].point_count > 0

\* ------------------------------------------------- properties of the colours
\* Range row k, as typed, contains the count c.
Contains(k, c) ==
  /\ color_ranges[k].min <= c
  /\ color_ranges[k].max = InfField \/ c <= color_ranges[k].max
\* Row k2 stands after row k1 once the rows are sorted stably by min.
SortedAfter(k1, k2) ==
  \/ color_ranges[k1].min < color_ranges[k2].min
  \/ color_ranges[k1].min = color_ranges[k2].min /\ k1 < k2

\* C1: a county whose count lies in several ranges gets the colour of the one
\* that is last in ascending order of min, rows of equal min keeping the order
\* in which they are configured.
C1_LastMatchWins ==
  Succeeded =>
    \A m \in {current_maps.map_a, current_maps.map_b} :
      \A i \in 1..Len(m) :
        \A k \in 1..Len(color_ranges) :
          ( /\ Contains(k, m[i].point_count)
            /\ \A k2 \in 1..Len(color_ranges) :
                 (k2 # k /\ Contains(k2, m[i].point_count)) => SortedAfter(k2, k) )
          => m[i].color = color_ranges[k].color

\* A count lying in two ranges, where the row configured first has the greater
\* min and so gives the colour.
C1_Witness ==
  /\ Succeeded
  /\ \E i \in 1..Len(current_maps.map_b) :
       \E k1, k2 \in 1..Len(color_ranges) :
         /\ k1 < k2
         /\ Contains(k1, current_maps.map_b[i].point_count)
         /\ Contains(k2, current_maps.map_b[i].point_count)
         /\ color_ranges[k1].min > color_ranges[k2].min
         /\ current_maps.map_b[i].point_count >= 1
         /\ current_maps.map_b[i].color = color_ranges[k1].color
         /\ \A k3 \in 1..Len(color_ranges) :
              Contains(k3, current_maps.map_b[i].point_count) => SortedAfter(k3, k1) \/ k3 = k1

\* C11: a county whose count lies in none of the configured ranges (a gap
\* between ranges, or a count below the lowest min) is white, whatever the
\* colours of the other counties.
C11_UnmatchedIsWhite ==
  Succeeded =>
    \A m \in {current_maps.map_a, current_maps.map_b} :
      \A i \in 1..Len(m) :
        (\A k \in 1..Len(color_ranges) : ~Contains(k, m[i].point_count))
          => m[i].color = "white"

\* A county whose count of at least one lies in no range, and is white, next
\* to a county that a range colours otherwise.
C11_Witness ==
  /\ Succeeded
  /\ \E i, j \in 1..Len(current_maps.map_b) :
       /\ current_maps.map_b[i].point_count >= 1
       /\ \A k \in 1..Len(color_ranges) : ~Contains(k, current_maps.map_b[i].point_count)
       /\ current_maps.map_b[i].color = "white"
       /\ current_maps.map_b[j].color # "white"

\* C12: a range whose max is the infinity sign matches every count from its
\* min upwards: the county's colour is that of this range or of a matching one
\* sorted after it. With the ranges as constructed, every count of 1001 or
\* more has the colour of the last range.
C12_UnboundedMaxMatches ==
  Succeeded =>
    \A m \in {current_maps.map_a, current_maps.map_b} :
      \A i \in 1..Len(m) :
        /\ \A k \in 1..Len(color_ranges) :
             (color_ranges[k].max = InfField /\ m[i].point_count >= color_ranges[k].min)
               => \E k2 \in 1..Len(color_ranges) :
                    /\ k2 = k \/ SortedAfter(k, k2)
                    /\ Contains(k2, m[i].point_count)
                    /\ m[i].color = color_ranges[k2].color
        /\ (color_ranges = default_ranges /\ m[i].point_count >= LastMin)
             => m[i].color = "#231f20"

\* The ranges as constructed and a county with more points than the last min.
C12_Witness ==
  /\ Succeeded
  /\ color_ranges = default_ranges
  /\ \E i \in 1..Len(current_maps.map_b) :
       /\ current_maps.map_b[i].point_count > LastMin + 1
       /\ current_maps.map_b[i].color = "#231f20"

\* --------------------------------------------------- properties of the legend
\* What configured range k shows in a legend: its label and its colour.
Shown(k) ==
  [label |-> IF color_ranges[k].max = InfField
             THEN <<color_ranges[k].min, "+">>
             ELSE <<color_ranges[k].min, "-", color_ranges[k].max>>,
   color |-> color_ranges[k].color]
LegendSorted ==
  \A i, j \in 1..Len(legend) : i < j => legend[i].label[1] <= legend[j].label[1]

\* C20 as stated: the legend is sorted by min and no two of its entries show
\* the same label.
C20_LegendDeduplicated ==
  Succeeded =>
    /\ LegendSorted
    /\ \A i, j \in 1..Len(legend) : i # j => legend[i].label # legend[j].label

\* C20, amended: the legend is sorted by min and has one entry for each
\* configured range, also when several ranges show the same label: an entry
\* occurs as often as there are configured ranges that show it.
C20_LegendEntryPerRange ==
  Succeeded =>
    /\ LegendSorted
    /\ Len(legend) = Len(color_ranges)
    /\ \A k \in 1..Len(color_ranges) :
         Cardinality({i \in 1..Len(legend) : legend[i] = Shown(k)})
           = Cardinality({k2 \in 1..Len(color_ranges) : Shown(k2) = Shown(k)})

\* Two configured ranges with the same label, both in the legend, and ranges
\* that are not configured in the order of their min.
C20_Witness ==
  /\ Succeeded
  /\ \E k1, k2 \in 1..Len(color_ranges) :
       /\ k1 # k2 /\ Shown(k1).label = Shown(k2).label
       /\ \E i, j \in 1..Len(legend) : i # j /\ legend[i] = Shown(k1) /\ legend[j] = Shown(k2)
  /\ \E k1, k2 \in 1..Len(color_ranges) :
       k1 < k2 /\ color_ranges[k1].min > color_ranges[k2].min

\* ------------------------------------------------ properties of the run in flight
\* C19 as stated: while a generate_map is in flight, a step of another
\* callback does not change the loaded table, the county table, the colour
\* ranges or the stored maps.
C19_OneRunInFlight ==
  [][(in_flight # <<>> /\ in_flight' = in_flight) =>
       /\ excel_data' = excel_data
       /\ montana_counties' = montana_counties
       /\ color_ranges' = color_ranges
       /\ current_maps' = current_maps]_vars

\* ------------------------------------------ properties of the county tables
\* The points of a dataset that lie in county i.
PointsOfCounty(points_data, i) ==
  {j \in 1..Len(points_data) :
     InsideCounty(points_data[j].geometry, montana_counties.rows[i].geometry)}

\* C18: the county table loaded from the shapefile is never changed by
\* generate_map, whatever its outcome and however often it runs (it keeps
\* the name and geometry columns only), and in the stored maps each table
\* holds the counts of its own dataset: writing the counts of Map B does not
\* reach Map A.
C18_CountyTablesIndependent ==
  /\ montana_counties.loaded =>
       /\ Len(montana_counties.rows) = NumCounties
       /\ \A i \in 1..Len(montana_counties.rows) :
            /\ DOMAIN montana_counties.rows[i] = {"NAME", "geometry"}
            /\ montana_counties.rows[i].geometry = ProjectRect(ShapefileRows[i].geometry)
  /\ Succeeded =>
       \A i \in 1..Len(montana_counties.rows) :
         /\ current_maps.map_a[i].point_count
              = Cardinality(PointsOfCounty(last.map_a_data, i))
         /\ current_maps.map_b[i].point_count
              = Cardinality(PointsOfCounty(last.map_b_data, i))

\* Maps whose tables differ in a county's count and colour.
C18_Witness ==
  /\ Succeeded
  /\ \E i \in 1..Len(current_maps.map_a) :
       /\ current_maps.map_a[i].point_count < current_maps.map_b[i].point_count
       /\ current_maps.map_a[i].color # current_maps.map_b[i].color
  /\ \A i \in 1..Len(montana_counties.rows) :
       DOMAIN montana_counties.rows[i] = {"NAME", "geometry"}

\* --------------------------------------------- properties of the coordinates
\* What the coordinate and direction cells of a converted row stand for.
NotationOf(cell) == CHOOSE e \in CoordinateCatalogue : e.cell = cell
LetterOf(cell) == (CHOOSE d \in DirectionCatalogue : d.cell = cell).letter
\* The number a notation denotes, in units: deg + min/60 + sec/3600 for DMS.
Denoted(e) ==
  IF e.kind = "dms"
  THEN e.deg * UnitsPerDegree + (e.min10 * UnitsPerDegree) \div 600
         + (e.sec10 * UnitsPerDegree) \div 36000
  ELSE e.v
Lat(p) == NotationOf(p.rec.lat)
Long(p) == NotationOf(p.rec.long)
Parseable(p) == Lat(p).kind # "bad" /\ Long(p).kind # "bad"
Magnitude(n) == IF n < 0 THEN 0 - n ELSE n
\* generate_map converted the filtered rows.
Converted == Generated /\ last.points # <<>>
ConvertedPoints == {last.points[j] : j \in 1..Len(last.points)}

\* C13 as stated: a decimal text gives the float it denotes, whatever the
\* direction.
C13_DecimalIdentity ==
  Converted =>
    \A p \in ConvertedPoints :
      Parseable(p) =>
        /\ Lat(p).kind = "decimal" => p.geometry.y = Lat(p).v
        /\ Long(p).kind = "decimal" => p.geometry.x = Long(p).v

\* C13, amended: a decimal text gives the float it denotes when the direction
\* is N or E, or is no valid letter for a latitude; it gives minus that float
\* when the direction is S or W, or is no valid letter for a longitude.
C13_DecimalUpToDirection ==
  Converted =>
    \A p \in ConvertedPoints :
      Parseable(p) =>
        /\ Lat(p).kind = "decimal" =>
             p.geometry.y = IF LetterOf(p.rec.lat_dir) = "S" THEN 0 - Lat(p).v
                            ELSE Lat(p).v
        /\ Long(p).kind = "decimal" =>
             p.geometry.x = IF LetterOf(p.rec.long_dir) = "E" THEN Long(p).v
                            ELSE 0 - Long(p).v

\* A decimal longitude negated under W.
C13_Witness ==
  /\ Converted
  /\ \E p \in ConvertedPoints :
       /\ Long(p).kind = "decimal" /\ Long(p).v > 0 /\ LetterOf(p.rec.long_dir) = "W"
       /\ p.geometry.valid /\ p.geometry.x = 0 - Long(p).v

\* C14: a text in degrees and minutes, with or without seconds, gives
\* degrees + minutes/60 + seconds/3600 (then signed by the direction); a text
\* that is not in this notation is read as a plain number, and gives
\* not-a-number when it is none.
C14_DmsFormula ==
  Converted =>
    \A p \in ConvertedPoints :
      /\ (Parseable(p) /\ Lat(p).kind \in {"dms", "decimal"}) =>
           Magnitude(p.geometry.y) = Magnitude(Denoted(Lat(p)))
      /\ (Parseable(p) /\ Long(p).kind \in {"dms", "decimal"}) =>
           Magnitude(p.geometry.x) = Magnitude(Denoted(Long(p)))
      /\ (Lat(p).kind = "dms" /\ LetterOf(p.rec.lat_dir) = "N" /\ Parseable(p)) =>
           p.geometry.y = Lat(p).deg * UnitsPerDegree + Lat(p).min10 * 60 + Lat(p).sec10
      /\ (Lat(p).cell.k = "text" /\ Lat(p).kind = "bad") => ~p.geometry.valid
      /\ (Long(p).cell.k = "text" /\ Long(p).kind = "bad") => ~p.geometry.valid

\* A latitude with minutes and decimal seconds, north.
C14_Witness ==
  /\ Converted
  /\ \E p \in ConvertedPoints :
       /\ Lat(p).kind = "dms" /\ Lat(p).sec10 > 0 /\ Lat(p).sec10 % 10 # 0
       /\ LetterOf(p.rec.lat_dir) = "N"
       /\ p.geometry.valid /\ p.geometry.y = Denoted(Lat(p))

\* C15 as stated: under S (latitude) or W (longitude) the coordinate is
\* minus the magnitude of the parsed value, so never positive; under N or E
\* it is the parsed value.
C15_NegativeHemisphere ==
  Converted =>
    \A p \in ConvertedPoints :
      Parseable(p) =>
        /\ LetterOf(p.rec.lat_dir) = "S" =>
             p.geometry.y = 0 - Magnitude(Denoted(Lat(p))) /\ p.geometry.y <= 0
        /\ LetterOf(p.rec.long_dir) = "W" =>
             p.geometry.x = 0 - Magnitude(Denoted(Long(p))) /\ p.geometry.x <= 0
        /\ LetterOf(p.rec.lat_dir) = "N" => p.geometry.y = Denoted(Lat(p))
        /\ LetterOf(p.rec.long_dir) = "E" => p.geometry.x = Denoted(Long(p))

\* C16: a direction that is not one of the two letters of its axis, or is
\* missing, does not fail the row: the latitude is the parsed value, the
\* longitude minus the parsed value, and every row of the table is converted.
C16_DirectionDefault ==
  Generated =>
    /\ Len(last.points) = Len(excel_data.rows)
    /\ ~last.escaped
    /\ \A p \in ConvertedPoints :
         Parseable(p) =>
           /\ p.geometry.valid
           /\ LetterOf(p.rec.lat_dir) \notin {"N", "S"} => p.geometry.y = Denoted(Lat(p))
           /\ LetterOf(p.rec.long_dir) \notin {"E", "W"} =>
                p.geometry.x = 0 - Denoted(Long(p))

\* A longitude in degrees and minutes with the direction "x".
C16_Witness ==
  /\ Converted
  /\ \E p \in ConvertedPoints :
       /\ p.rec.long_dir = TextCell(<<"x">>) /\ Long(p).kind = "dms"
       /\ p.geometry.valid /\ p.geometry.x = 0 - Denoted(Long(p))

\* The rows of a table of points.
Records(points) == {points[j].rec : j \in 1..Len(points)}

\* C17: a row whose latitude or longitude denotes no number does not abort
\* generate_map; its point is not-a-number or (0, 0), it is not among the
\* clipped points nor in the data of either map, no county counts it, and
\* the other rows are clipped and counted as usual.
C17_UnparseableRowSkipped ==
  Generated =>
    /\ ~last.escaped
    /\ Len(last.points) = Len(excel_data.rows)
    /\ \A p \in ConvertedPoints :
         ~Parseable(p) =>
           /\ ~p.geometry.valid \/ (p.geometry.x = 0 /\ p.geometry.y = 0)
           /\ p.rec \notin Records(last.clipped)
           /\ p.rec \notin Records(last.map_a_data) \cup Records(last.map_b_data)
    /\ (\E p \in ConvertedPoints : ~Parseable(p)) =>
         /\ Succeeded
         /\ \A m \in {current_maps.map_a, current_maps.map_b} :
              SumSeq(Counts(m)) = Cardinality({j \in 1..Len(last.points) :
                                                 Parseable(last.points[j])})

\* An unparseable latitude next to the specimen in county 1, which is counted.
C17_Witness ==
  /\ Succeeded
  /\ \E p \in ConvertedPoints : Lat(p).kind = "bad" /\ Long(p).kind # "bad"
  /\ current_maps.map_b[1].point_count = 1
  /\ Len(last.clipped) = 1

\* ------------------------------------------------- properties of the filter
\* The taxon texts generate_map reads from the three dropdowns.
Query(col) ==
  CASE col = "family" -> StripSeq(selected_family)
    [] col = "genus" -> StripSeq(selected_genus)
    [] col = "species" -> StripSeq(selected_species)
Wildcard(col) == IF col = "species" THEN AllSpecies ELSE AllFamily
\* generate_map ran its taxon filter.
Filtered == Generated /\ last.trace # <<>>
\* Row j of the loaded table is among the filtered rows.
Kept(j) == Occurrences(last.filtered, excel_data.rows[j]) >= 1
\* The cell as read from the file holds a text that is not blank.
FilledInFile(c) == c.k = "text" /\ StripSeq(c.s) # <<>>

\* C5 as stated: a field selected with the wildcard keeps exactly the rows
\* whose value in that field is non-empty after trimming; a row whose cell is
\* blank or missing in the file is not kept.
C5_WildcardDropsBlank ==
  Filtered =>
    \A j \in 1..Len(excel_data.rows) :
      \A col \in TaxonColumns :
        (Query(col) = Wildcard(col) /\ Kept(j)) => FilledInFile(read_file.rows[j][col])

\* The test one field of the selection puts on a loaded cell.
FieldPasses(cell, col) ==
  IF Query(col) = Wildcard(col)
  THEN StripSeq(cell.s) # <<>>
  ELSE LowerSeq(cell.s) = LowerSeq(Query(col))

LacksColumns == excel_data.loaded /\ ~(RequiredColumns \subseteq excel_data.columns)

\* C4: no stage runs on a table lacking a required column. load_excel raises
\* on such a file before normalising any cell or filling a dropdown, and
\* generate_map raises on such a table before the filter, each ending in its
\* error path with no stage done.
C4_NoStageWithoutColumns ==
  /\ (Generated /\ last.trace # <<>>) => ~LacksColumns
  /\ (Generated /\ LacksColumns) =>
       (last.error \/ last.escaped) /\ last.trace = <<>> /\ last.filtered = <<>>
  /\ (last.op = "load_excel" /\ LacksColumns) =>
       (last.error \/ last.escaped) /\ excel_data = read_file

\* generate_map on the table of a file without the year column, the counties
\* being there from an earlier load and the selection and year being valid.
C4_Witness ==
  /\ Generated /\ LacksColumns /\ montana_counties.loaded
  /\ selected_species = AllSpecies /\ year_var = <<"2", "0", "2", "0">>
  /\ last.destroys = 2

\* ------------------------------------------------- properties of the stages
StageOrder ==
  <<"filter", "convert", "clip", "split", "map_a", "map_b", "store", "display">>
Ran(stage) == \E i \in 1..Len(last.trace) : last.trace[i] = stage

\* C21: the stages of one generate_map run in the order filter, conversion,
\* clipping, year split, Map A, Map B, store, each at most once and none
\* without those before it; the clipped points are converted rows of the one
\* filtered table, and the datasets of both maps come from the one clipped
\* table (Map B is that table, Map A a part of it).
C21_StagesInOrder ==
  Generated =>
    /\ Len(last.trace) <= Len(StageOrder)
    /\ \A i \in 1..Len(last.trace) : last.trace[i] = StageOrder[i]
    /\ Succeeded => Ran("store")
    /\ Ran("clip") =>
         /\ Len(last.points) = Len(last.filtered)
         /\ \A j \in 1..Len(last.points) : last.points[j].rec = last.filtered[j]
         /\ Records(last.clipped) \subseteq Records(last.points)
         /\ Len(last.clipped) <= Len(last.points)
    /\ Ran("map_a") =>
         /\ last.map_b_data = last.clipped
         /\ Len(last.map_a_data) <= Len(last.clipped)
         /\ \A j \in 1..Len(last.map_a_data) :
              \E k \in 1..Len(last.clipped) : last.map_a_data[j] = last.clipped[k]

\* A run to the end in which the clip dropped a point and the year split
\* kept a clipped point out of Map A.
C21_Witness ==
  /\ Succeeded
  /\ last.trace = StageOrder
  /\ Len(last.clipped) < Len(last.points)
  /\ Len(last.map_a_data) < Len(last.map_b_data)

\* -------------------------------------------- properties of the stored maps
\* C22 as stated: current_maps changes only in a generate_map that reports
\* success.
C22_ReplacedOnlyOnSuccess ==
  [][current_maps' # current_maps =>
       /\ last'.op = "generate_map"
       /\ last'.toast = "County maps generated successfully"
       /\ ~last'.error]_vars

\* A county row of the stored maps is explained by the legend: an entry of
\* its colour has its count in the range the label names, or the row is white
\* and no entry has.
LabelHolds(label, count) ==
  /\ label[1] <= count
  /\ label[2] = "+" \/ count <= label[3]
Explained(row) ==
  \/ \E i \in 1..Len(legend) :
       legend[i].color = row.color /\ LabelHolds(legend[i].label, row.point_count)
  \/ /\ row.color = "white"
     /\ \A i \in 1..Len(legend) : ~LabelHolds(legend[i].label, row.point_count)

\* C25 as stated: the legend drawn with the stored maps is that of the ranges
\* the counties were coloured with, so it explains the colour of every county
\* of both maps.
C25_LegendMatchesColours ==
  (current_maps.present /\ legend # <<>>) =>
    \A m \in {current_maps.map_a, current_maps.map_b} :
      \A i \in 1..Len(m) : Explained(m[i])

\* ----------------------------------------------- properties of the handlers
\* C23 as stated: a load_excel or generate_map that created a LoadingIndicator
\* called destroy() on it once, and no destroy() raised out of the handler;
\* only a generate_map that returned before creating one called it not at all.
C23_DestroyedOnce ==
  last.op \in {"load_excel", "generate_map"} =>
    /\ ~last.escaped
    /\ last.destroys <= 1
    /\ last.destroys = 0 =>
         last.toast \in {"Please load an Excel file first",
                         "Please load an Excel file first to initialize county data"}

\* C24 as stated: a load_excel that ends in an error leaves the table, the
\* counties and the displayed path as they were.
C24_FailedLoadKeepsData ==
  [][(last'.op = "load_excel" /\ (last'.error \/ last'.escaped)) =>
       /\ excel_data' = excel_data
       /\ montana_counties' = montana_counties
       /\ file_path_var' = file_path_var]_vars

\* C26 as stated: generate_map on loaded data with a year text that is no
\* integer, or is an integer <= 0, shows 'Please enter a valid year' and
\* returns with no stage run and the maps as they were.
C26_InvalidYearReported ==
  (Generated /\ excel_data.loaded /\ montana_counties.loaded
     /\ year_var \in {<<"0">>, <<"a">>}) =>
    /\ last.toast = "Please enter a valid year"
    /\ last.error /\ ~last.escaped
    /\ last.trace = <<>> /\ last.filtered = <<>>
====
